---- MODULE Spec2Model ----
(***************************************************************************)
(* Model of the webhook receiver of nc-buyboy-v2 (src/server.js, the       *)
(* handler registered at line 616 and the helpers it calls).               *)
(*                                                                         *)
(* Node runs a handler to completion between two awaits, so the model has  *)
(* one action per synchronous segment of the handler.  `running` names the *)
(* request whose synchronous code is executing (0 when the event loop is   *)
(* free); the item loop is unrolled one item per step while `running` is   *)
(* held, so no other handler can interleave inside a segment.              *)
(***************************************************************************)
EXTENDS Integers, Sequences, FiniteSets, TLC

----------------------------------------------------------------------------
(* Bounds of the model *)

\* longest batch (req.body array) a request carries
MaxBatch == 3

\* the clock makes at most MaxTicks steps of TickMs (four more, of a quarter
\* of TickMs, in the end-to-end workload)
MaxTicks == 1

\* the cap of seenSignatures: 5000 at src/server.js:653, scaled down.  A prune
\* runs on SeenCeiling + 1 entries and keeps the newest half of them, rounded
\* down (2500 of 5001 at line 655)
SeenCeiling == 1

\* the history counter pubs saturates at this value
CountCap == 2

\* one clock step, in milliseconds: the default cooldown
TickMs == 20 * 1000

\* Date.now() when the process starts; lastPostAt starts at 0, so the first
\* cooldown check passes for any real clock value
Epoch0 == 100 * 1000

\* requests that can be in flight at the same time
Req == {1, 2}

KeepCount == (SeenCeiling + 1) \div 2

----------------------------------------------------------------------------
(* Values *)

\* JavaScript null / a present value
None == << >>
Some(x) == << x >>

\* one signature more than seenSignatures can hold
SigNames == << "sigA", "sigB", "sigC", "sigD", "sigE" >>
Sigs == { SigNames[i] : i \in 1..(SeenCeiling + 1) }

\* the code treats all signatures alike; the history variables follow this one
Watched == "sigA"

\* a raw number of the payload: finite, or NaN / Infinity / not a number
Num(v) == [finite |-> TRUE, val |-> v]

Transfer(m, a) == [mint |-> m, tokenAmount |-> Num(a)]

TransferLists ==
    { << >>,
      << Transfer("NC", 99) >>,
      << Transfer("NC", 100) >>,
      << Transfer("OTHER", 100) >> }

Obj(sig, tt) == [kind |-> "object", signature |-> sig, tokenTransfers |-> tt]

\* batch items that are not objects: null, and a JSON string
Malformed ==
    { [kind |-> "null", signature |-> "", tokenTransfers |-> << >>],
      [kind |-> "string", signature |-> "", tokenTransfers |-> << >>] }

\* signature "" stands for an item without signature
Items == Malformed \cup { Obj(s, tt) : s \in Sigs \cup {""}, tt \in TransferLists }

AuthHeaders == {"", "secret", "wrong"}

\* process.env as read at lines 292-309; postX is POST_TO_X && hasXCreds.
\* MIN_NC_AMOUNT is Number() of any string of the environment, negative ones
\* included
Configs ==
    [ NC_MINT : {"", "NC"},
      MIN_NC_AMOUNT : {0 - 10, 0, 100},
      COOLDOWN_SECONDS : {0, 20},
      STRICT_FILTER : BOOLEAN,
      WEBHOOK_AUTH : {"", "secret"},
      postX : BOOLEAN ]

\* a target mint, a minimum amount and the default cooldown, posting to X
CfgMain ==
    [ NC_MINT |-> "NC", MIN_NC_AMOUNT |-> 100, COOLDOWN_SECONDS |-> 20,
      STRICT_FILTER |-> FALSE, WEBHOOK_AUTH |-> "secret", postX |-> TRUE ]

\* no target mint, strict mode, no cooldown, no secret, overlay only
CfgOpen ==
    [ NC_MINT |-> "", MIN_NC_AMOUNT |-> 100, COOLDOWN_SECONDS |-> 0,
      STRICT_FILTER |-> TRUE, WEBHOOK_AUTH |-> "", postX |-> FALSE ]

\* one client sending batches of up to MaxBatch items
Batch ==
    [clients |-> {1}, maxItems |-> MaxBatch, items |-> Items,
     tickMs |-> TickMs, ticks |-> MaxTicks, script |-> << >>]

\* every client sending single items, possibly at the same time
Race ==
    [clients |-> Req, maxItems |-> 1, items |-> Items,
     tickMs |-> TickMs, ticks |-> MaxTicks, script |-> << >>]

\* the payloads of the end-to-end scenario
PayloadA == Obj("sigA", << Transfer("NC", 500) >>)
PayloadB == Obj("sigB", << Transfer("NC", 600) >>)

\* one client sending the end-to-end scenario: sigA at 0 s and at 5 s, sigB at
\* 5 s and at 25 s, each once the request before it is answered
E2E ==
    [clients |-> {1}, maxItems |-> 1, items |-> {PayloadA, PayloadB},
     tickMs |-> TickMs \div 4, ticks |-> MaxTicks + 4,
     script |-> << [at |-> 0, item |-> PayloadA],
                   [at |-> 5000, item |-> PayloadA],
                   [at |-> 5000, item |-> PayloadB],
                   [at |-> 25000, item |-> PayloadB] >>]

\* transfer lists that exercise the scan of lines 380-394: several entries, an
\* entry under the minimum ahead of one that reaches it, a negative amount, an
\* amount that is no finite number, an entry without mint
ProbeTransferLists ==
    TransferLists \cup
    { << Transfer("OTHER", 99), Transfer("NC", 100) >>,
      << Transfer("NC", 100), Transfer("NC", 500) >>,
      << Transfer("NC", 0 - 5) >>,
      << [mint |-> "NC", tokenAmount |-> [finite |-> FALSE, val |-> 0]] >>,
      << Transfer("", 100) >> }

ProbeItems == { Obj(s, tt) : s \in {Watched, ""}, tt \in ProbeTransferLists }

\* one client sending single items with the transfer lists above
Probe ==
    [clients |-> {1}, maxItems |-> 1, items |-> ProbeItems,
     tickMs |-> TickMs, ticks |-> MaxTicks, script |-> << >>]

\* the runs explored: a configuration and the name of a workload
Scenarios ==
    { << CfgMain, "Batch" >>,
      << CfgOpen, "Batch" >>,
      << [CfgMain EXCEPT !.postX = FALSE], "Race" >>,
      << CfgMain, "E2E" >> }

----------------------------------------------------------------------------
VARIABLES
    cfg,                  \* the environment configuration, fixed at start
    load,                 \* name of the workload the clients generate, fixed at start
    now,                  \* Date.now()
    seenSignatures,       \* the Set, as the sequence of its insertion order
    lastPostAt,
    lastAlert,
    lastAlertImageBuffer,
    req,                  \* per request: position and locals of the handler
    running,              \* request executing synchronous code, or 0
    resp,                 \* the response sent last, until a request is accepted
    step,                 \* scripted workload: requests of the script sent
    pubs,                 \* history: alerts published for Watched so far
    evicted               \* history: a prune has dropped Watched

vars == << cfg, load, now, seenSignatures, lastPostAt, lastAlert,
           lastAlertImageBuffer, req, running, resp, step, pubs, evicted >>

shared == << seenSignatures, lastPostAt, lastAlert, lastAlertImageBuffer >>

hist == << pubs, evicted >>

SeqToSet(s) == { s[i] : i \in 1..Len(s) }

\* the workload of this run
Load ==
    CASE load = "Batch" -> Batch [] load = "Race" -> Race
      [] load = "E2E" -> E2E [] load = "Probe" -> Probe

----------------------------------------------------------------------------
(* Helpers of the handler *)

\* lines 341-344
safeNum(n) == IF n.finite THEN n.val ELSE 0

\* lines 380-394: the first transfer that qualifies, or None.  The mints of
\* the payloads hold no white space, so trim() leaves them as they are.
RECURSIVE ScanTransfers(_, _)
ScanTransfers(tt, i) ==
    IF i > Len(tt) THEN None
    ELSE LET mint == tt[i].mint
             amt  == safeNum(tt[i].tokenAmount)
         IN IF cfg.NC_MINT # ""
            THEN IF mint # cfg.NC_MINT THEN ScanTransfers(tt, i + 1)
                 ELSE IF amt < cfg.MIN_NC_AMOUNT THEN ScanTransfers(tt, i + 1)
                 ELSE Some([mint |-> mint, amount |-> amt])
            ELSE IF amt <= 0 THEN ScanTransfers(tt, i + 1)
                 ELSE Some([mint |-> IF mint = "" THEN "UNKNOWN_MINT" ELSE mint,
                            amount |-> amt])

\* lines 371-406
extractBuyFromHeliusItem(item) ==
    LET matched == ScanTransfers(item.tokenTransfers, 1)
    IN IF matched = None /\ cfg.STRICT_FILTER THEN None
       ELSE Some([signature |-> IF item.signature = "" THEN None
                                ELSE Some(item.signature),
                  amount |-> IF matched = None THEN None ELSE Some(matched[1].amount),
                  mint |-> IF matched = None THEN None ELSE Some(matched[1].mint)])

\* a variant of line 632 with the typeof test left out
IsObjectNotNull(item) == item.kind # "null"

\* line 632
IsObject(item) == item.kind = "object"

\* a variant of lines 618-620 that rejects a missing header only
AuthRejectedMissingOnly(hdr) == cfg.WEBHOOK_AUTH # "" /\ hdr = ""

\* lines 618-620
AuthRejected(hdr) == cfg.WEBHOOK_AUTH # "" /\ hdr # cfg.WEBHOOK_AUTH

\* a variant of line 640 that recognizes no signature
IsDuplicateNever(sig) == FALSE

\* line 640
IsDuplicate(sig) == sig # None /\ sig[1] \in SeqToSet(seenSignatures)

\* a variant of lines 642-643 in which no cooldown is ever in force
CooldownNever == FALSE

\* lines 642-643: elapsed < COOLDOWN_SECONDS, with elapsed in seconds
CooldownActive == (now - lastPostAt) < cfg.COOLDOWN_SECONDS * 1000

\* lines 648-649
FilteredOut(buy) ==
    \/ cfg.NC_MINT # "" /\ buy.mint # None /\ buy.mint[1] # cfg.NC_MINT
    \/ cfg.MIN_NC_AMOUNT # 0 /\ buy.amount # None /\ buy.amount[1] < cfg.MIN_NC_AMOUNT

\* a variant of lines 653-658 that keeps the oldest entries
PruneOldest(s) ==
    IF Len(s) > SeenCeiling
    THEN SubSeq(s, 1, KeepCount)
    ELSE s

\* a variant of lines 653-658 that prunes one entry too late
PruneLate(s) ==
    IF Len(s) > SeenCeiling + 1
    THEN SubSeq(s, Len(s) - KeepCount + 1, Len(s))
    ELSE s

\* lines 653-658
Prune(s) ==
    IF Len(s) > SeenCeiling
    THEN SubSeq(s, Len(s) - KeepCount + 1, Len(s))
    ELSE s

\* a variant of lines 651-659 without the test of line 651
RecordAny(sig) ==
    LET x == IF sig = None THEN "" ELSE sig[1]
    IN Prune(IF x \in SeqToSet(seenSignatures) THEN seenSignatures
             ELSE Append(seenSignatures, x))

\* lines 651-659
Record(sig) ==
    IF sig = None THEN seenSignatures
    ELSE Prune(IF sig[1] \in SeqToSet(seenSignatures) THEN seenSignatures
               ELSE Append(seenSignatures, sig[1]))

\* a variant in which lines 651-659 run ahead of the cooldown check
SeenAfterEager(o, sig) ==
    IF o \in {"publish", "cooldown"} THEN Record(sig) ELSE seenSignatures

\* lines 651-659 run for an item that passed every check, and for no other
SeenAfter(o, sig) == IF o = "publish" THEN Record(sig) ELSE seenSignatures

\* lines 632-649: what the loop body does with an item
Outcome(item) ==
    IF ~IsObject(item) THEN "malformed"
    ELSE LET b == extractBuyFromHeliusItem(item)
         IN IF b = None THEN "nobuy"
            ELSE IF IsDuplicate(b[1].signature) THEN "duplicate"
            ELSE IF CooldownActive THEN "cooldown"
            ELSE IF FilteredOut(b[1]) THEN "filtered"
            ELSE "publish"

----------------------------------------------------------------------------
NewReq ==
    [pc |-> "idle", left |-> 0, accepted |-> 0, triggered |-> 0,
     buy |-> None, readLast |-> None, skippedAt |-> {}, pubAt |-> None]

NoResp ==
    [status |-> 0, accepted |-> 0, triggered |-> 0, left |-> 0, skippedAt |-> {}]

\* the response of request r with status `code`; accepted and triggered are in
\* the body of a 200 only; left and skippedAt are history
Answer(r, code) ==
    [status |-> code,
     accepted |-> IF code = 200 THEN req[r].accepted ELSE 0,
     triggered |-> IF code = 200 THEN req[r].triggered ELSE 0,
     left |-> req[r].left,
     skippedAt |-> req[r].skippedAt]

InDelivery(r) == req[r].pc \in {"image", "upload", "tweet"}

Scripted == Load.script # << >>

\* the process starts with configuration c, its clients running workload l
Start(c, l) ==
    /\ cfg = c
    /\ load = l
    /\ now = Epoch0
    /\ seenSignatures = << >>
    /\ lastPostAt = 0
    /\ lastAlert = None
    /\ lastAlertImageBuffer = None
    /\ req = [r \in Req |-> NewReq]
    /\ running = 0
    /\ resp = NoResp
    /\ step = 0
    /\ pubs = 0
    /\ evicted = FALSE

Init == \E sc \in Scenarios : Start(sc[1], sc[2])

\* every configuration, under the single-item workload Probe
InitProbe == \E c \in Configs : Start(c, "Probe")

\* the client side: request slots are taken lowest first; a scripted client
\* sends the next request of its script at the time the script gives, unless
\* the request before it failed
MaySend(r, n) ==
    /\ r \in Load.clients
    /\ \A q \in Load.clients : q < r => req[q].pc # "idle"
    /\ n \in 0..Load.maxItems
    /\ Scripted =>
         /\ step < Len(Load.script)
         /\ now = Epoch0 + Load.script[step + 1].at
         /\ resp.status # 500
         /\ n = 1

\* lines 616-629: a request with Authorization header hdr and n items arrives;
\* the auth check, then the loop starts
ReceiveWith(r, hdr, n) ==
    /\ running = 0
    /\ req[r].pc = "idle"
    /\ MaySend(r, n)
    /\ IF AuthRejected(hdr)
       THEN /\ resp' = [NoResp EXCEPT !.status = 401]
            /\ UNCHANGED << req, running, step >>
       ELSE /\ req' = [req EXCEPT ![r] = [NewReq EXCEPT !.pc = "loop", !.left = n]]
            /\ running' = r
            /\ resp' = NoResp
            /\ step' = IF Scripted THEN step + 1 ELSE step
    /\ UNCHANGED << cfg, load, now, shared, hist >>

Receive(r) == \E hdr \in AuthHeaders, n \in 0..MaxBatch : ReceiveWith(r, hdr, n)

\* the items a client may send next
NextItems == IF Scripted THEN {Load.script[step].item} ELSE Load.items

\* lines 631-673: one iteration of the loop on `item`, up to `continue` or to
\* the await of buildBuyImagePng
ProcessItemWith(r, item) ==
    /\ running = r
    /\ req[r].pc = "loop"
    /\ req[r].left > 0
    /\ item \in NextItems
    /\ LET o == Outcome(item)
           b == extractBuyFromHeliusItem(item)
           sig == IF b = None THEN None ELSE b[1].signature
       IN /\ seenSignatures' = SeenAfter(o, sig)
          /\ evicted' = (evicted \/ (Watched \in SeqToSet(seenSignatures)
                                     /\ Watched \notin SeqToSet(seenSignatures')))
          /\ IF o = "publish"
             THEN /\ req' = [req EXCEPT ![r].pc = "image",
                                        ![r].accepted = @ + 1,
                                        ![r].buy = b,
                                        ![r].readLast = Some(lastPostAt)]
                  /\ running' = 0
             ELSE /\ req' = [req EXCEPT ![r].left = @ - 1,
                                        ![r].accepted =
                                            IF o \in {"malformed", "nobuy"} THEN @ ELSE @ + 1,
                                        ![r].skippedAt =
                                            IF o = "malformed" THEN @ \cup {req[r].left}
                                            ELSE @]
                  /\ UNCHANGED running
    /\ UNCHANGED << cfg, load, now, lastPostAt, lastAlert, lastAlertImageBuffer,
                    resp, step, pubs >>

ProcessItem(r) == \E item \in Items \cup Load.items : ProcessItemWith(r, item)

\* a variant of lines 697-698 that leaves lastPostAt as it is
FinishItemNoStamp(r) ==
    /\ lastPostAt' = lastPostAt
    /\ req' = [req EXCEPT ![r].pc = "loop",
                          ![r].left = @ - 1,
                          ![r].triggered = @ + 1,
                          ![r].buy = None,
                          ![r].readLast = None,
                          ![r].pubAt = Some(now)]
    /\ running' = r

\* lines 697-698: the end of a published item's iteration
FinishItem(r) ==
    /\ lastPostAt' = now
    /\ req' = [req EXCEPT ![r].pc = "loop",
                          ![r].left = @ - 1,
                          ![r].triggered = @ + 1,
                          ![r].buy = None,
                          ![r].readLast = None,
                          ![r].pubAt = Some(now)]
    /\ running' = r

\* a variant of lines 673-695 that stores the image when buildBuyImagePng
\* resolves and leaves the assignment of lastAlert to a later segment
ImageDoneImageOnly(r) ==
    /\ running = 0
    /\ req[r].pc = "image"
    /\ lastAlertImageBuffer' = Some(req[r].buy[1])
    /\ IF cfg.postX
       THEN /\ req' = [req EXCEPT ![r].pc = "upload"]
            /\ UNCHANGED << lastPostAt, running >>
       ELSE FinishItem(r)
    /\ UNCHANGED << cfg, load, now, seenSignatures, lastAlert, resp, step, hist >>

\* lines 673-695: buildBuyImagePng resolves; image and alert are stored
ImageDone(r) ==
    /\ running = 0
    /\ req[r].pc = "image"
    /\ LET buy == req[r].buy[1]
       IN /\ lastAlertImageBuffer' = Some(buy)
          /\ lastAlert' = Some([signature |-> buy.signature, amount |-> buy.amount,
                                mint |-> buy.mint, createdAt |-> now])
          /\ pubs' = IF buy.signature = Some(Watched) /\ pubs < CountCap
                     THEN pubs + 1 ELSE pubs
    /\ IF cfg.postX
       THEN /\ req' = [req EXCEPT ![r].pc = "upload"]
            /\ UNCHANGED << lastPostAt, running >>
       ELSE FinishItem(r)
    /\ UNCHANGED << cfg, load, now, seenSignatures, resp, step, evicted >>

\* line 691: xUploadMedia resolves
UploadDone(r) ==
    /\ running = 0
    /\ req[r].pc = "upload"
    /\ req' = [req EXCEPT ![r].pc = "tweet"]
    /\ UNCHANGED << cfg, load, now, shared, running, resp, step, hist >>

\* lines 692-698: xCreateTweet resolves
TweetDone(r) ==
    /\ running = 0
    /\ req[r].pc = "tweet"
    /\ FinishItem(r)
    /\ UNCHANGED << cfg, load, now, seenSignatures, lastAlert, lastAlertImageBuffer,
                    resp, step, hist >>

\* a variant of lines 702-705 in which the catch forgets the signature of the
\* item whose delivery failed
DeliveryThrowsRollback(r) ==
    /\ running = 0
    /\ InDelivery(r)
    /\ resp' = Answer(r, 500)
    /\ req' = [req EXCEPT ![r] = NewReq]
    /\ LET keep(x) == Some(x) # req[r].buy[1].signature
       IN seenSignatures' = SelectSeq(seenSignatures, keep)
    /\ UNCHANGED << cfg, load, now, lastPostAt, lastAlert, lastAlertImageBuffer,
                    running, step, hist >>

\* lines 702-705: an awaited call rejects; the catch answers 500
DeliveryThrows(r) ==
    /\ running = 0
    /\ InDelivery(r)
    /\ resp' = Answer(r, 500)
    /\ req' = [req EXCEPT ![r] = NewReq]
    /\ UNCHANGED << cfg, load, now, shared, running, step, hist >>

\* a variant of line 701 that sends the response and does not return
RespondKeepOpen(r) ==
    /\ running = r
    /\ req[r].pc = "loop"
    /\ req[r].left = 0
    /\ resp' = Answer(r, 200)
    /\ running' = 0
    /\ UNCHANGED << cfg, load, now, shared, req, step, hist >>

\* line 701: the loop is over
Respond(r) ==
    /\ running = r
    /\ req[r].pc = "loop"
    /\ req[r].left = 0
    /\ resp' = Answer(r, 200)
    /\ req' = [req EXCEPT ![r] = NewReq]
    /\ running' = 0
    /\ UNCHANGED << cfg, load, now, shared, step, hist >>

\* lines 333-335: the clock advances while the event loop is idle or awaiting;
\* a synchronous segment runs in microseconds against a tick of seconds
Tick ==
    /\ running = 0
    /\ now < Epoch0 + Load.ticks * Load.tickMs
    /\ now' = now + Load.tickMs
    /\ UNCHANGED << cfg, load, shared, req, running, resp, step, hist >>

Next ==
    \/ \E r \in Req : Receive(r)
    \/ \E r \in Req : ProcessItem(r)
    \/ \E r \in Req : ImageDone(r)
    \/ \E r \in Req : UploadDone(r)
    \/ \E r \in Req : TweetDone(r)
    \/ \E r \in Req : DeliveryThrows(r)
    \/ \E r \in Req : Respond(r)
    \/ Tick

Spec == Init /\ [][Next]_vars

SpecProbe == InitProbe /\ [][Next]_vars

\* Node runs a synchronous segment to its end, and the event loop resumes
\* every handler whose awaited call has settled, however many other requests
\* arrive; every awaited call (buildBuyImagePng, xUploadMedia, xCreateTweet)
\* is taken to resolve or reject in the end
Fairness ==
    \A r \in Req :
        /\ WF_vars(ProcessItem(r))
        /\ WF_vars(Respond(r))
        /\ SF_vars(ImageDone(r) \/ UploadDone(r) \/ TweetDone(r) \/ DeliveryThrows(r))

SpecLive == Spec /\ Fairness

----------------------------------------------------------------------------
(* Claims *)

CooldownMs == cfg.COOLDOWN_SECONDS * 1000

\* C1: any two alerts published one after the other are at least
\* COOLDOWN_SECONDS apart: whenever lastAlert is replaced, the alert it
\* replaces was created at least COOLDOWN_SECONDS before.
C1_CooldownBetweenAlerts ==
    [][\A r \in Req :
          (ImageDone(r) /\ lastAlert # None)
              => now - lastAlert[1].createdAt >= CooldownMs]_vars

\* C2: two requests in flight never both pass the cooldown check against the
\* same value of lastPostAt: no two requests are between their passing check
\* and their update of lastPostAt having read the same lastPostAt.
C2_CooldownSerialized ==
    \A r1, r2 \in Req :
        (r1 # r2 /\ InDelivery(r1) /\ InDelivery(r2))
            => req[r1].readLast # req[r2].readLast

\* C3, as claimed: at most one alert is ever published for a signature.
C3_AtMostOneAlertEver == pubs <= 1

\* C3, amended: while a signature is in seenSignatures every submission of it
\* is dropped as a duplicate, whatever the cooldown: the step changes no shared
\* state and starts no delivery; and a second alert for a signature is
\* published only after a prune has evicted it.
C3_IdempotentWhileSeen ==
    /\ [][\A r \in Req, item \in Items \cup Load.items :
             (/\ ProcessItemWith(r, item)
              /\ item.kind = "object"
              /\ item.signature # ""
              /\ item.signature \in SeqToSet(seenSignatures))
                 => (/\ req'[r].pc = "loop"
                     /\ req'[r].left = req[r].left - 1
                     /\ req'[r].triggered = req[r].triggered
                     /\ UNCHANGED << shared, hist >>)]_vars
    /\ [](pubs >= 2 => evicted)

\* C3 witness: the scripted resubmission of sigA, 5 s after its alert was
\* published, is answered with triggered = 0.
C3_DuplicateDropped ==
    /\ Scripted
    /\ step = 2
    /\ resp.status = 200
    /\ resp.accepted = 1
    /\ resp.triggered = 0
    /\ pubs = 1
    /\ Watched \in SeqToSet(seenSignatures)

\* C4: seenSignatures never holds more entries than the ceiling once an item's
\* record step is over.
C4_SeenBounded == Len(seenSignatures) <= SeenCeiling

\* C4 witness: a prune has run and dropped the oldest signature.
C4_Pruned ==
    /\ evicted
    /\ Len(seenSignatures) = KeepCount
    /\ Watched \notin SeqToSet(seenSignatures)

\* C5: with a target mint M and a minimum amount A configured, an alert is
\* published only for a payload holding a transfer of mint M and amount >= A:
\* a payload whose transfer has amount A - 1, or whose transfers are all of
\* another mint, has no such transfer and publishes nothing.
C5_FilterCorrect ==
    [][\A r \in Req :
          (ImageDone(r) /\ cfg.NC_MINT # "" /\ cfg.MIN_NC_AMOUNT > 0)
              => (/\ req[r].buy[1].mint = Some(cfg.NC_MINT)
                  /\ req[r].buy[1].amount # None
                  /\ req[r].buy[1].amount[1] >= cfg.MIN_NC_AMOUNT)]_vars

\* C6: the end-to-end scenario (target mint NC, minimum 100, cooldown 20 s),
\* each request answered with its counts: sigA/500 at 0 s gives triggered = 1
\* and an alert of amount 500; sigA again at 5 s gives triggered = 0; sigB/600
\* at 5 s gives accepted = 1, triggered = 0 and is not remembered as seen; sigB
\* again at 25 s gives triggered = 1.  In general an item rejected by the
\* cooldown leaves seenSignatures as it was.
C6_EndToEnd ==
    /\ []((Scripted /\ resp.status = 200) =>
            /\ step = 1 => /\ resp.triggered = 1
                           /\ lastAlert # None
                           /\ lastAlert[1].amount = Some(500)
                           /\ lastAlert[1].signature = Some("sigA")
            /\ step = 2 => resp.triggered = 0
            /\ step = 3 => /\ resp.accepted = 1
                           /\ resp.triggered = 0
                           /\ "sigB" \notin SeqToSet(seenSignatures)
            /\ step = 4 => /\ resp.accepted = 1
                           /\ resp.triggered = 1
                           /\ lastAlert[1].amount = Some(600))
    /\ [][\A r \in Req, item \in Items \cup Load.items :
             (ProcessItemWith(r, item) /\ Outcome(item) = "cooldown")
                 => seenSignatures' = seenSignatures]_vars

\* C6 witness: the fourth request of the scenario is answered, triggered = 1.
C6_ScenarioDone ==
    /\ Scripted
    /\ step = 4
    /\ now = Epoch0 + 25000
    /\ resp.status = 200
    /\ resp.triggered = 1

\* C7: a batch is never aborted: every authorized request is answered with
\* its counts (200) after all its items were processed.
C7_BatchNeverAborted ==
    resp.status \in {200, 500} => (resp.status = 200 /\ resp.left = 0)

\* C8: a malformed item (null, or not an object) is skipped alone: its step
\* moves the loop to the next item and changes nothing else, neither the
\* counts nor the shared state.
C8_MalformedSkipped ==
    [][\A r \in Req, item \in Malformed :
          ProcessItemWith(r, item)
              => (/\ req' = [req EXCEPT ![r].left = @ - 1,
                                        ![r].skippedAt = @ \cup {req[r].left}]
                  /\ UNCHANGED << shared, hist, running, resp >>)]_vars

\* C8 witness: a batch of 3 items whose item 2 is malformed is answered with
\* accepted = 2: items 1 and 3 were processed.
C8_MiddleItemMalformed ==
    /\ load = "Batch"
    /\ MaxBatch = 3
    /\ resp.status = 200
    /\ resp.skippedAt = {2}
    /\ resp.accepted = 2
    /\ resp.triggered = 2

\* C9: with a secret configured, a request whose Authorization header differs
\* from it is answered 401 and nothing is processed: the shared state and the
\* requests in flight are as before.
C9_UnauthorizedRejected ==
    [][\A r \in Req, hdr \in AuthHeaders, n \in 0..MaxBatch :
          (/\ ReceiveWith(r, hdr, n)
           /\ cfg.WEBHOOK_AUTH # ""
           /\ hdr # cfg.WEBHOOK_AUTH)
              => (/\ resp'.status = 401
                  /\ UNCHANGED << shared, hist, req, running, step >>)]_vars

\* C9 witness: a request has been answered 401.
C9_Answered401 ==
    /\ cfg.WEBHOOK_AUTH # ""
    /\ resp.status = 401
    /\ lastAlert # None
    /\ seenSignatures # << >>

\* C10: when the delivery of an item starts, lastPostAt has been set to the
\* time of its cooldown check.
C10_CooldownCommittedFirst ==
    [][\A r \in Req, item \in Items \cup Load.items :
          (ProcessItemWith(r, item) /\ req'[r].pc = "image")
              => lastPostAt' = now]_vars

\* C11 as stated: when the delivery of an item with signature s fails, s is in
\* seenSignatures.
C11_FailedSignatureStays ==
    [][\A r \in Req :
          (DeliveryThrows(r) /\ req[r].buy[1].signature # None)
            => req[r].buy[1].signature[1] \in SeqToSet(seenSignatures')]_vars

\* C11, amended: the signature of an item is in seenSignatures when its
\* delivery starts; a failed delivery changes nothing of seenSignatures and
\* ends the request without another attempt; an item whose signature is in
\* seenSignatures starts no delivery.  (A signature leaves seenSignatures by
\* a prune only.)
C11_DedupSurvivesFailure ==
    /\ [][\A r \in Req, item \in Items \cup Load.items :
             (ProcessItemWith(r, item) /\ req'[r].pc = "image" /\ item.signature # "")
               => item.signature \in SeqToSet(seenSignatures')]_vars
    /\ [][\A r \in Req :
             DeliveryThrows(r)
               => /\ seenSignatures' = seenSignatures
                  /\ req'[r].pc = "idle"
                  /\ \A q \in Req \ {r} : req'[q] = req[q]]_vars
    /\ [][\A r \in Req, item \in Items \cup Load.items :
             (ProcessItemWith(r, item) /\ IsObject(item)
                /\ item.signature \in SeqToSet(seenSignatures))
               => ~InDelivery(r)']_vars

\* the delivery of Watched failed (lastAlert is set and no delivery ever
\* completed), Watched is still remembered, and the request answered last
\* carried one item, dropped as a duplicate
C11_DuplicateAfterFailure ==
    /\ load = "Batch"
    /\ cfg = CfgMain
    /\ lastPostAt = 0
    /\ lastAlert # None
    /\ lastAlert[1].signature = Some(Watched)
    /\ seenSignatures = << Watched >>
    /\ resp.status = 200
    /\ resp.accepted = 1
    /\ resp.triggered = 0
    /\ resp.skippedAt = {}

\* lines 634-635 and 648-649: the item yields a buy and no filter rule
\* (strict, target mint, minimum amount) rejects it
PassesFiltering(item) ==
    /\ IsObject(item)
    /\ extractBuyFromHeliusItem(item) # None
    /\ ~FilteredOut(extractBuyFromHeliusItem(item)[1])

\* C12: accepted counts exactly the items of the batch that pass filtering,
\* and a success response has triggered <= accepted.
C12_ResponseCounts ==
    /\ [][\A r \in Req, item \in Items \cup Load.items :
             ProcessItemWith(r, item)
               => (req'[r].accepted = req[r].accepted + 1 <=> PassesFiltering(item))]_vars
    /\ [](resp.status = 200 => resp.triggered <= resp.accepted)

\* C13: seenSignatures never holds the absent signature, and an item without
\* signature that yields a buy, meets no cooldown and passes the filter rules
\* is published whatever seenSignatures holds, leaving it unchanged.
C13_NoSignatureBypassesDedup ==
    /\ [](\A i \in 1..Len(seenSignatures) : seenSignatures[i] # "")
    /\ [][\A r \in Req, item \in Items \cup Load.items :
             (/\ ProcessItemWith(r, item)
              /\ PassesFiltering(item)
              /\ item.signature = ""
              /\ now - lastPostAt >= CooldownMs)
               => (req'[r].pc = "image" /\ seenSignatures' = seenSignatures)]_vars

\* a batch of three published items, the last without signature, and one
\* signature remembered
C13_UnsignedPublished ==
    /\ resp.status = 200
    /\ resp.triggered = 3
    /\ Len(seenSignatures) = 1
    /\ lastAlert # None
    /\ lastAlert[1].signature = None

\* C14 as stated: an item with a new signature that passes the filter rules
\* is in seenSignatures after its processing, cooldown or not.
C14_RecordedBeforeCooldown ==
    [][\A r \in Req, item \in Items \cup Load.items :
          (/\ ProcessItemWith(r, item)
           /\ PassesFiltering(item)
           /\ item.signature # ""
           /\ item.signature \notin SeqToSet(seenSignatures))
            => item.signature \in SeqToSet(seenSignatures')]_vars

\* C14, amended: the order is dedup check, cooldown check, filter rules,
\* record.  An item with a new signature that yields a buy is recorded if and
\* only if it meets no cooldown and passes the filter rules, and then its
\* delivery starts; rejected by the cooldown it is not in seenSignatures after
\* its processing.
C14_RecordedAfterCooldown ==
    [][\A r \in Req, item \in Items \cup Load.items :
          (/\ ProcessItemWith(r, item)
           /\ IsObject(item)
           /\ extractBuyFromHeliusItem(item) # None
           /\ item.signature # ""
           /\ item.signature \notin SeqToSet(seenSignatures))
            => /\ item.signature \in SeqToSet(seenSignatures')
                   <=> (now - lastPostAt >= CooldownMs /\ PassesFiltering(item))
               /\ item.signature \in SeqToSet(seenSignatures')
                   <=> req'[r].pc = "image"]_vars

\* the third request of the end-to-end workload: sigB, accepted, rejected by
\* the cooldown and not remembered
C14_CooldownRejectNotRecorded ==
    /\ Scripted
    /\ step = 3
    /\ resp.status = 200
    /\ resp.accepted = 1
    /\ resp.triggered = 0
    /\ lastPostAt > 0
    /\ "sigB" \notin SeqToSet(seenSignatures)

\* C15: an item that yields a buy, is no duplicate and arrives less than the
\* cooldown after lastPostAt is counted as accepted and dropped: the shared
\* state is unchanged, no delivery starts, and the request keeps nothing of it.
C15_CooldownRejectionPureDrop ==
    [][\A r \in Req, item \in Items \cup Load.items :
          (/\ ProcessItemWith(r, item)
           /\ IsObject(item)
           /\ extractBuyFromHeliusItem(item) # None
           /\ item.signature \notin SeqToSet(seenSignatures)
           /\ now - lastPostAt < CooldownMs)
            => /\ UNCHANGED << shared, hist, running, resp >>
               /\ req' = [req EXCEPT ![r].left = @ - 1, ![r].accepted = @ + 1]
               /\ \A q \in Req : ~InDelivery(q)' \/ InDelivery(q)]_vars

\* a batch of two items without signature, both accepted, one published and
\* the other one rejected by the cooldown
C15_DroppedByCooldown ==
    /\ cfg = CfgMain
    /\ load = "Batch"
    /\ resp.status = 200
    /\ resp.accepted = 2
    /\ resp.triggered = 1
    /\ resp.skippedAt = {}
    /\ seenSignatures = << >>
    /\ lastPostAt > 0

\* C16: a request that has published an item publishes a later item of its
\* batch only when the clock has advanced by the cooldown or more since then;
\* with a cooldown of zero every item that passes filtering and carries a
\* signature not yet seen, or none, is published.
C16_CooldownPerItem ==
    /\ [][\A r \in Req, item \in Items \cup Load.items :
             (ProcessItemWith(r, item) /\ req[r].pubAt # None /\ req'[r].pc = "image")
               => now - req[r].pubAt[1] >= CooldownMs]_vars
    /\ [][\A r \in Req, item \in Items \cup Load.items :
             (/\ ProcessItemWith(r, item)
              /\ cfg.COOLDOWN_SECONDS = 0
              /\ PassesFiltering(item)
              /\ item.signature \notin SeqToSet(seenSignatures))
               => req'[r].pc = "image"]_vars

\* a batch of three items without signature, processed with the clock
\* standing still under a cooldown of 20 s: all accepted, one published
C16_OnePerBatch ==
    /\ cfg = CfgMain
    /\ load = "Batch"
    /\ now = Epoch0
    /\ resp.status = 200
    /\ resp.accepted = 3
    /\ resp.triggered = 1
    /\ seenSignatures = << >>

\* C17: when the record step takes seenSignatures over the ceiling, what is
\* left is the KeepCount entries inserted last, in their order, the one just
\* recorded being the last of them.
C17_EvictionKeepsNewest ==
    [][\A r \in Req, item \in Items \cup Load.items :
          (/\ ProcessItemWith(r, item)
           /\ req'[r].pc = "image"
           /\ item.signature # ""
           /\ Len(seenSignatures) = SeenCeiling)
            => LET grown == seenSignatures \o << item.signature >>
               IN /\ Len(seenSignatures') = KeepCount
                  /\ seenSignatures'[KeepCount] = item.signature
                  /\ \A i \in 1..KeepCount :
                        seenSignatures'[i] = grown[Len(grown) - KeepCount + i]]_vars

\* a prune has dropped Watched and kept the signature of the alert published
\* last
C17_NewestKept ==
    /\ evicted
    /\ lastAlert # None
    /\ lastAlert[1].signature # None
    /\ lastAlert[1].signature[1] # Watched
    /\ seenSignatures = << lastAlert[1].signature[1] >>

\* C18: the scan yields the mint and amount of the first entry, in payload
\* order, whose mint is the target mint when one is configured and whose
\* amount is strictly positive otherwise, and whose amount reaches the minimum
\* (0 when none is configured); it yields null when no entry is such.  (An
\* entry without mint is reported with the mint UNKNOWN_MINT.)
C18_FirstMatch ==
    [][\A r \in Req, item \in Items \cup Load.items :
          (ProcessItemWith(r, item) /\ IsObject(item))
            => LET tt == item.tokenTransfers
                   qualifies(t) ==
                       /\ IF cfg.NC_MINT # "" THEN t.mint = cfg.NC_MINT
                          ELSE safeNum(t.tokenAmount) > 0
                       /\ safeNum(t.tokenAmount) >= cfg.MIN_NC_AMOUNT
                   hits == { i \in 1..Len(tt) : qualifies(tt[i]) }
                   first == CHOOSE i \in hits : \A j \in hits : i <= j
               IN ScanTransfers(tt, 1) =
                    IF hits = {} THEN None
                    ELSE Some([mint |-> IF tt[first].mint = "" THEN "UNKNOWN_MINT"
                                        ELSE tt[first].mint,
                               amount |-> safeNum(tt[first].tokenAmount)])]_vars

\* C19: the buy of an item has a null amount exactly when the scan of its
\* transfers matched nothing, and then a null mint; an amount that is not
\* null is a finite number and is not negative (an amount of the payload that
\* is no finite number counts as 0).  The same holds of the alert published
\* last.
C19_AmountInvariant ==
    /\ [][\A r \in Req, item \in Items \cup Load.items :
             (/\ ProcessItemWith(r, item)
              /\ IsObject(item)
              /\ extractBuyFromHeliusItem(item) # None)
               => LET buy == extractBuyFromHeliusItem(item)[1]
                      tt == item.tokenTransfers
                      amt(t) == IF t.tokenAmount.finite THEN t.tokenAmount.val ELSE 0
                      matches(t) ==
                          IF cfg.NC_MINT # ""
                          THEN t.mint = cfg.NC_MINT /\ amt(t) >= cfg.MIN_NC_AMOUNT
                          ELSE amt(t) > 0
                  IN /\ buy.amount = None <=> ~ \E i \in 1..Len(tt) : matches(tt[i])
                     /\ buy.amount = None => buy.mint = None
                     /\ buy.amount # None => buy.amount[1] >= 0]_vars
    /\ []((lastAlert # None /\ lastAlert[1].amount # None)
            => lastAlert[1].amount[1] >= 0)

\* C20: an item whose scan matches nothing yields no buy exactly when strict
\* mode is on and a target mint is configured; in every other configuration
\* it yields a buy and is counted as accepted.
C20_StrictRule ==
    [][\A r \in Req, item \in Items \cup Load.items :
          (/\ ProcessItemWith(r, item)
           /\ IsObject(item)
           /\ ScanTransfers(item.tokenTransfers, 1) = None)
            => LET dropped == cfg.STRICT_FILTER /\ cfg.NC_MINT # ""
               IN /\ extractBuyFromHeliusItem(item) = None <=> dropped
                  /\ req'[r].accepted = req[r].accepted <=> dropped]_vars

\* C21: lastAlert and lastAlertImageBuffer are both unset, or both set and
\* written for the same buy: the image is the one rendered from the signature,
\* amount and mint that lastAlert carries.
C21_AlertMatchesImage ==
    /\ lastAlert = None <=> lastAlertImageBuffer = None
    /\ lastAlert # None
         => lastAlertImageBuffer[1] = [signature |-> lastAlert[1].signature,
                                       amount |-> lastAlert[1].amount,
                                       mint |-> lastAlert[1].mint]

\* two requests in flight: the alert of the second one is published while the
\* image of the first one, for another signature, is still being rendered
C21_PublishedDuringRender ==
    /\ load = "Race"
    /\ req[1].pc = "image"
    /\ req[1].buy[1].signature = Some(Watched)
    /\ req[2].pc = "idle"
    /\ lastAlert # None
    /\ lastAlert[1].signature = Some("sigB")
    /\ lastAlert[1].amount = Some(100)
    /\ lastAlertImageBuffer # None

\* C22: a request ends exactly in a step that sends its response, 200 with
\* its counts or 500; a response is sent only by a request that ends in that
\* step, or as the 401 of a request that never starts; and every request that
\* has started ends.
C22_ExactlyOneResponse ==
    /\ [][\A r \in Req :
             (req[r].pc # "idle" /\ req'[r].pc = "idle")
               => /\ resp'.status \in {200, 500}
                  /\ resp' = Answer(r, resp'.status)
                  /\ \A q \in Req \ {r} : req'[q] = req[q]]_vars
    /\ [][(resp'.status # 0 /\ resp' # resp)
             => \/ resp'.status = 401 /\ req' = req
                \/ \E r \in Req : req[r].pc # "idle" /\ req'[r].pc = "idle"]_vars
    /\ \A r \in Req : (req[r].pc # "idle") ~> (req[r].pc = "idle")

\* a request that went through the image, the upload and the tweet has been
\* answered 200, and no request is open
C22_AnsweredAfterPosting ==
    /\ cfg.postX
    /\ resp.status = 200
    /\ resp.triggered >= 1
    /\ \A r \in Req : req[r].pc = "idle"

====
